---------------------------- MODULE Spec2Model ----------------------------
(***************************************************************************)
(* Model of ProcessCards.py (PKMNTCGP_Card_DB_Generator): the catalog      *)
(* build, the promo/regular matcher, the metadata derivation and the       *)
(* cross-set aggregation of the card database generator.                   *)
(*                                                                         *)
(* Strings are sequences of chunks.  A chunk is one or more characters of  *)
(* the Python string; every character the code inspects on its own (a      *)
(* separator, the leading "c", a digit of a card number, a word's first    *)
(* letter) is a chunk of its own, so split/replace/in/startswith act on    *)
(* chunk boundaries exactly as they act on characters in the source.       *)
(* A Python dict is a sequence of [k, v] entries in insertion order.       *)
(* An image hash is the set of the bit positions (0..63) that are set.     *)
(***************************************************************************)
EXTENDS Integers, Sequences, FiniteSets, TLC

(***************************************************************************)
(* str helpers                                                             *)
(***************************************************************************)
RECURSIVE SplitAcc(_, _, _)
SplitAcc(s, sep, cur) ==
    IF s = <<>> THEN <<cur>>
    ELSE IF Head(s) = sep THEN <<cur>> \o SplitAcc(Tail(s), sep, <<>>)
    ELSE SplitAcc(Tail(s), sep, Append(cur, Head(s)))

\* str.split(sep) for a one-character separator
Split(s, sep) == SplitAcc(s, sep, <<>>)

\* str.split() : whitespace split, empty words dropped
SplitWords(s) == SelectSeq(Split(s, " "), LAMBDA w : w # <<>>)

RECURSIVE Join(_, _)
Join(segs, sep) ==
    IF segs = <<>> THEN <<>>
    ELSE IF Len(segs) = 1 THEN segs[1]
    ELSE segs[1] \o <<sep>> \o Join(Tail(segs), sep)

StartsWith(s, p) == Len(s) >= Len(p) /\ SubSeq(s, 1, Len(p)) = p

\* the Python  sub in s  on strings
Contains(s, sub) ==
    \E i \in 0..(Len(s) - Len(sub)) : SubSeq(s, i + 1, i + Len(sub)) = sub

RECURSIVE Remove(_, _)
\* s.replace(old, '') : non-overlapping occurrences, left to right
Remove(s, old) ==
    IF s = <<>> THEN <<>>
    ELSE IF StartsWith(s, old) THEN Remove(SubSeq(s, Len(old) + 1, Len(s)), old)
    ELSE <<Head(s)>> \o Remove(Tail(s), old)

Digits == <<"0", "1", "2", "3", "4", "5", "6", "7", "8", "9">>

DigitValue(c) == (CHOOSE i \in 1..10 : Digits[i] = c) - 1

IsDigit(c) == \E i \in 1..10 : Digits[i] = c

RECURSIVE DecimalValue(_)
DecimalValue(s) ==
    IF s = <<>> THEN 0
    ELSE 10 * DecimalValue(SubSeq(s, 1, Len(s) - 1)) + DigitValue(s[Len(s)])

\* int(s) raises ValueError on the empty string and on any non-digit
IntParses(s) == s # <<>> /\ \A i \in 1..Len(s) : IsDigit(s[i])

UpperTable == [c \in {"c", "d", "m", "p"} |->
                 CASE c = "c" -> "C" [] c = "d" -> "D" [] c = "m" -> "M" [] c = "p" -> "P"]

\* str.upper() of a one-character chunk
Upper(c) == IF c \in DOMAIN UpperTable THEN UpperTable[c] ELSE c

LowerTable == [c \in {".PNG", ".JPG"} |->
                 CASE c = ".PNG" -> ".png" [] c = ".JPG" -> ".jpg"]

\* str.lower() of a chunk
Lower(c) == IF c \in DOMAIN LowerTable THEN LowerTable[c] ELSE c

\* str.capitalize()
Capitalize(s) ==
    IF s = <<>> THEN <<>>
    ELSE <<Upper(s[1])>> \o [i \in 1..(Len(s) - 1) |-> Lower(s[i + 1])]

(***************************************************************************)
(* dict helpers (insertion-ordered)                                        *)
(***************************************************************************)
DictHas(d, k) == \E i \in 1..Len(d) : d[i].k = k

DictGet(d, k) == d[CHOOSE i \in 1..Len(d) : d[i].k = k].v

\* d[k] = v : an existing key keeps its position, a new key goes last
DictSet(d, k, v) ==
    IF DictHas(d, k)
    THEN [i \in 1..Len(d) |-> IF d[i].k = k THEN [k |-> k, v |-> v] ELSE d[i]]
    ELSE Append(d, [k |-> k, v |-> v])

RECURSIVE DictUpdate(_, _)
\* d.update(other)
DictUpdate(d, other) ==
    IF other = <<>> THEN d
    ELSE DictUpdate(DictSet(d, other[1].k, other[1].v), Tail(other))

(***************************************************************************)
(* config.py                                                               *)
(***************************************************************************)
GeneticApex == <<"G", "enetic", " ", "A", "pex">>

MythicalIsland == <<"M", "ythical", " ", "I", "sland">>

SpaceTimeSmackdown == <<"S", "pace-Time", " ", "S", "mackdown">>

TriumphantLight == <<"T", "riumphant", " ", "L", "ight">>

ShiningRevelry == <<"S", "hining", " ", "R", "evelry">>

CelestialGuardians == <<"C", "elestial", " ", "G", "uardians">>

ExtradimensionalCrisis == <<"E", "xtradimensional", " ", "C", "risis">>

\* PACK_CONFIGS[set]["packs"], in insertion order
PACK_CONFIGS ==
    << [k |-> GeneticApex,
        v |-> << [k |-> <<"c", "harizard", "-", "pack">>, v |-> "C"],
                 [k |-> <<"m", "ewtwo", "-", "pack">>, v |-> "M"],
                 [k |-> <<"p", "ikachu", "-", "pack">>, v |-> "P"] >>],
       [k |-> SpaceTimeSmackdown,
        v |-> << [k |-> <<"d", "ialga", "-", "pack">>, v |-> "D"],
                 [k |-> <<"p", "alkia", "-", "pack">>, v |-> "P"] >>],
       [k |-> CelestialGuardians,
        v |-> << [k |-> <<"c", "elestial", "-", "guardians", "-", "lunala">>, v |-> "L"],
                 [k |-> <<"c", "elestial", "-", "guardians", "-", "solgaleo">>, v |-> "S"] >>] >>

SET_NAME_TO_EXPANSION_ID ==
    << [k |-> GeneticApex, v |-> "a1"],
       [k |-> MythicalIsland, v |-> "a1a"],
       [k |-> SpaceTimeSmackdown, v |-> "a2"],
       [k |-> TriumphantLight, v |-> "a2a"],
       [k |-> ShiningRevelry, v |-> "a2b"],
       [k |-> CelestialGuardians, v |-> "a3"],
       [k |-> ExtradimensionalCrisis, v |-> "a3a"] >>

RARITY_MAP ==
    << [k |-> <<"C">>, v |-> 1],
       [k |-> <<"U">>, v |-> 2],
       [k |-> <<"R">>, v |-> 3],
       [k |-> <<"R", "R">>, v |-> 4],
       [k |-> <<"A", "R">>, v |-> 5],
       [k |-> <<"S", "R">>, v |-> 6],
       [k |-> <<"S", "A", "R">>, v |-> 7],
       [k |-> <<"I", "M">>, v |-> 8],
       [k |-> <<"U", "R">>, v |-> 9],
       [k |-> <<"S">>, v |-> 10],
       [k |-> <<"S", "S", "R">>, v |-> 11],
       [k |-> <<"I", "R">>, v |-> 12] >>

(***************************************************************************)
(* ProcessCards.py : constants and helper functions                        *)
(***************************************************************************)
BASE_URL == <<"https:", "/", "/", "www.pokemon-zone.com">>

\* SET_PATH.format(expansion_id)
SET_PATH(expansion_id) == <<"/", "sets", "/", expansion_id, "/">>

\* PACKS_PATH.format(expansion_id, pack_name)
PACKS_PATH(expansion_id, pack_name) ==
    <<"/", "sets", "/", expansion_id, "/", "packs", "/">> \o pack_name \o <<"/">>

PROMO_SET_URL == BASE_URL \o <<"/", "sets", "/", "promo-a", "/">>

\* the value None
None == <<"None">>

\* list of (pack_url, pack_suffix)
get_pack_urls(set_name, expansion_id) ==
    IF DictHas(PACK_CONFIGS, set_name)
    THEN LET packs == DictGet(PACK_CONFIGS, set_name)
         IN  [i \in 1..Len(packs) |->
                 [url |-> PACKS_PATH(expansion_id, packs[i].k), suffix |-> packs[i].v]]
    ELSE << [url |-> SET_PATH(expansion_id), suffix |-> ""] >>

\* index of the first configured pack whose name occurs in pack_url, 0 if none
FirstPackIn(set_name, pack_url) ==
    IF ~DictHas(PACK_CONFIGS, set_name) THEN 0
    ELSE LET packs == DictGet(PACK_CONFIGS, set_name)
             hits == {i \in 1..Len(packs) : Contains(pack_url, packs[i].k)}
         IN  IF hits = {} THEN 0 ELSE CHOOSE i \in hits : \A j \in hits : i <= j

get_card_set_name(set_name, pack_url) ==
    LET i == FirstPackIn(set_name, pack_url)
    IN  IF i # 0
        THEN Capitalize(Split(DictGet(PACK_CONFIGS, set_name)[i].k, "-")[1])
        ELSE IF set_name = SpaceTimeSmackdown THEN <<"S", "pace-Time">>
        ELSE SplitWords(set_name)[1]

\* get_card_set returning in the first turn of its loop, without the test
\* pack_name in pack_url
get_card_set_FirstPack(set_name, pack_url, base_initials) ==
    IF DictHas(PACK_CONFIGS, set_name)
    THEN base_initials \o <<DictGet(PACK_CONFIGS, set_name)[1].v>>
    ELSE base_initials

get_card_set(set_name, pack_url, base_initials) ==
    LET i == FirstPackIn(set_name, pack_url)
    IN  IF i # 0
        THEN base_initials \o <<DictGet(PACK_CONFIGS, set_name)[i].v>>
        ELSE base_initials

slug_to_card_name(slug) ==
    LET parts == Split(slug, "-")
    IN  Join([i \in 1..Len(parts) |->
                 IF parts[i] = <<"e", "x">> THEN <<"E", "X">> ELSE Capitalize(parts[i])],
             " ")

get_set_initials(set_name) ==
    IF set_name = SpaceTimeSmackdown THEN <<"S", "T", "S">>
    ELSE LET words == SplitWords(set_name)
         IN  [i \in 1..Len(words) |-> Upper(words[i][1])]

\* RARITY_MAP.get(code, 0) of filename.split("_")[5]; ok = FALSE is the IndexError
get_card_rarity_from_filename(filename) ==
    LET parts == Split(filename, "_")
    IN  IF Len(parts) < 6 THEN [ok |-> FALSE, val |-> 0]
        ELSE [ok |-> TRUE,
              val |-> IF DictHas(RARITY_MAP, parts[6]) THEN DictGet(RARITY_MAP, parts[6]) ELSE 0]

is_promo_card(filename) == Contains(filename, <<"_", "9", "0", "_">>)

\* a - b of two imagehash values: the number of differing bits
HashDistance(a, b) == Cardinality((a \ b) \cup (b \ a))

\* card_number and slug of a card URL; ok = FALSE when the path has < 3 parts
ParseCardUrl(url) ==
    LET parts == Split(Remove(url, BASE_URL \o <<"/", "cards", "/">>), "/")
    IN  IF Len(parts) < 3 THEN [ok |-> FALSE, card_number |-> <<>>, card_slug |-> <<>>]
        ELSE [ok |-> TRUE, card_number |-> parts[2], card_slug |-> parts[3]]

\* the sort key  int(card_number.replace('TL', '').replace('P', ''))
StrippedNumber(card_number) == Remove(Remove(card_number, <<"T", "L">>), <<"P">>)

SortKeyParses(card_number) == IntParses(StrippedNumber(card_number))

SortKey(card_number) == DecimalValue(StrippedNumber(card_number))

RECURSIVE InsertSorted(_, _)
\* e goes behind every entry whose key is <= its own (sorted() is stable)
InsertSorted(sorted, e) ==
    IF sorted = <<>> THEN <<e>>
    ELSE IF SortKey(Head(sorted).v.card_number) <= SortKey(e.v.card_number)
         THEN <<Head(sorted)>> \o InsertSorted(Tail(sorted), e)
         ELSE <<e>> \o sorted

RECURSIVE SortedByNumber(_)
\* dict(sorted(d.items(), key=lambda x: int(...)))
SortedByNumber(d) ==
    IF d = <<>> THEN <<>>
    ELSE InsertSorted(SortedByNumber(SubSeq(d, 1, Len(d) - 1)), d[Len(d)])

\* the sort raises ValueError when some key does not parse
SortRaises(d) == \E i \in 1..Len(d) : ~SortKeyParses(d[i].v.card_number)

(***************************************************************************)
(* Bounds and the inputs the environment supplies                          *)
(***************************************************************************)
\* the batch run iterates the first NumSets entries of SET_NAME_TO_EXPANSION_ID
NumSets == 2

\* longest card listing of one pack page, in a single-set run and in a batch run
MaxListing == 2

BatchMaxListing == 1

\* most files in one asset folder, in a single-set run and in a batch run
MaxFiles == 2

BatchMaxFiles == 1

\* longest promo listing
MaxPromoListing == 1

SetsInScope == SubSeq(SET_NAME_TO_EXPANSION_ID, 1, NumSets)

UnknownSet == <<"N", "o", " ", "S", "uch">>

\* card URLs the site can list (BASE_URL + href)
URL_5 == BASE_URL \o <<"/", "cards", "/", "a1", "/", "5", "/", "p", "ikachu", "-", "e", "x", "/">>

URL_TL3 == BASE_URL \o <<"/", "cards", "/", "a1", "/", "T", "L", "3", "/", "m", "r", "-", "m", "ime", "/">>

URL_P1 == BASE_URL \o <<"/", "cards", "/", "promo-a", "/", "P", "1", "/", "p", "otion", "/">>

URL_12a == BASE_URL \o <<"/", "cards", "/", "promo-a", "/", "1", "2", "a", "/", "m", "ew", "/">>

URL_short == BASE_URL \o <<"/", "cards", "/", "promo-a", "/", "7">>

RegularUrls == {URL_5, URL_TL3}

PromoUrls == {URL_P1, URL_12a, URL_short}

\* imagehash.average_hash of the image the site serves for a card
OnlineHash(url) ==
    CASE url = URL_5 -> {}
      [] url = URL_TL3 -> 0..9
      [] url = URL_P1 -> {}
      [] url = URL_12a -> {63}
      [] url = URL_short -> {63}

\* average_hash values of local images
LocalHashes == {{}, {63}}

\* names an asset folder can hold
FILE_regular == <<"c", "A", "_", "1", "_", "2", "_", "3", "_", "4", "_", "R", "_", "x", ".png">>

FILE_crown == <<"A", "_", "1", "_", "2", "_", "3", "_", "5", "_", "U", "R", "_", "x", ".png">>

FILE_unknown == <<"c", "B", "_", "1", "_", "2", "_", "3", "_", "4", "_", "Z", ".PNG">>

FILE_promo == <<"c", "P", "_", "9", "0", "_", "2", "_", "3", "_", "4", "_", "R", "_", "x", ".png">>

FILE_four == <<"c", "A", "_", "1", "_", "2", "_", "3", ".png">>

FILE_three == <<"A", "_", "1", "_", "2", ".png">>

FILE_text == <<"n", "otes", ".txt">>

FileNames == {FILE_regular, FILE_crown, FILE_unknown, FILE_promo, FILE_four, FILE_three,
              FILE_text}

RECURSIVE SeqsUpTo(_, _)
\* the sequences over S of length at most n
SeqsUpTo(S, n) ==
    IF n = 0 THEN {<<>>}
    ELSE LET shorter == SeqsUpTo(S, n - 1)
         IN  shorter \cup {Append(q, x) : q \in {r \in shorter : Len(r) = n - 1}, x \in S}

(***************************************************************************)
(* State                                                                   *)
(***************************************************************************)
VARIABLES
    args_setName,           \* --setName, None when omitted
    pc,                     \* position of the run
    error,                  \* the uncaught exception that ended the run, "" if none
    set_i,                  \* index of the batch loop in SET_NAME_TO_EXPANSION_ID
    all_regular_cards,      \* batch aggregate of regular cards
    all_promo_cards,        \* batch aggregate of promo cards
    returned,               \* what process_set returned to the batch loop
    set_name,               \* process_set: its argument
    pack_i,                 \* process_set: index of the pack being fetched
    pack_cards,             \* process_set: cards, the listing of the latest pack fetched
    card_pack_appearances,  \* process_set: card_url -> list of pack_urls
    all_cards,              \* process_set: card urls in first-seen order
    card_i,                 \* process_set: index of the hash pass in all_cards
    online_cards,           \* process_set: the catalog
    listed,                 \* process_set: local files gone through so far
    regular_cards_json,     \* process_set: records of regular cards
    promo_cards_json,       \* process_set: records of promo cards
    last,                   \* process_set: what happened to the latest local file
    saved                   \* the JSON files written so far: file name -> mapping

vars == <<args_setName, pc, error, set_i, all_regular_cards, all_promo_cards, returned,
          set_name, pack_i, pack_cards, card_pack_appearances, all_cards, card_i, online_cards,
          listed, regular_cards_json, promo_cards_json, last, saved>>

NoFile == [filename |-> <<>>, outcome |-> "none", is_promo |-> FALSE, local_hash |-> {},
           json_key |-> <<>>, best_match_url |-> None, best_distance |-> 0]

\* the return value of process_set: none for a bare return, else the pair
\* (sorted_regular, sorted_promo); a member that is None is written <<>>, which
\* no dict of the pair can be (it is built only from a non-empty dict)
NoResult == [none |-> TRUE, sorted_regular |-> <<>>, sorted_promo |-> <<>>]

\* the locals of process_set before it is called and after it has returned
NoLocals ==
    /\ pack_i' = 0
    /\ pack_cards' = <<>>
    /\ card_pack_appearances' = <<>>
    /\ all_cards' = <<>>
    /\ card_i' = 0
    /\ online_cards' = <<>>
    /\ listed' = {}
    /\ regular_cards_json' = <<>>
    /\ promo_cards_json' = <<>>
    /\ last' = NoFile

Init ==
    /\ args_setName \in {None, UnknownSet} \cup {SetsInScope[i].k : i \in 1..Len(SetsInScope)}
    /\ pc = "main"
    /\ error = ""
    /\ set_i = 0
    /\ all_regular_cards = <<>>
    /\ all_promo_cards = <<>>
    /\ returned = NoResult
    /\ set_name = None
    /\ pack_i = 0
    /\ pack_cards = <<>>
    /\ card_pack_appearances = <<>>
    /\ all_cards = <<>>
    /\ card_i = 0
    /\ online_cards = <<>>
    /\ listed = {}
    /\ regular_cards_json = <<>>
    /\ promo_cards_json = <<>>
    /\ last = NoFile
    /\ saved = <<>>

expansion_id == DictGet(SET_NAME_TO_EXPANSION_ID, set_name)

base_initials == get_set_initials(set_name)

pack_urls == get_pack_urls(set_name, expansion_id)

(***************************************************************************)
(* __main__                                                                *)
(***************************************************************************)
\* the argument parse and the branch on --setName
Main ==
    /\ pc = "main"
    /\ IF args_setName # None
       THEN IF DictHas(SET_NAME_TO_EXPANSION_ID, args_setName)
            THEN pc' = "process_set" /\ set_name' = args_setName
            ELSE pc' = "done" /\ UNCHANGED set_name
       ELSE pc' = "loop" /\ UNCHANGED set_name
    /\ set_i' = IF args_setName = None THEN 1 ELSE 0
    /\ UNCHANGED <<args_setName, error, all_regular_cards, all_promo_cards, returned,
                   pack_i, pack_cards, card_pack_appearances, all_cards, card_i, online_cards, listed,
                   regular_cards_json, promo_cards_json, last, saved>>

\* json.dump(mapping, f) into output_file, skipped when the mapping is empty or None
SaveIfAny(files, output_file, mapping) ==
    IF mapping = <<>> THEN files ELSE DictSet(files, output_file, mapping)

\* for set_name in SET_NAME_TO_EXPANSION_ID.keys(): ... then the combined save
BatchNext ==
    /\ pc = "loop"
    /\ IF set_i <= Len(SetsInScope)
       THEN pc' = "process_set" /\ set_name' = SetsInScope[set_i].k /\ saved' = saved
       ELSE /\ pc' = "done"
            /\ saved' = SaveIfAny(SaveIfAny(saved, <<"Full_Cards_Database.json">>,
                                            all_regular_cards),
                                  <<"TCGP_Promo_Cards_Database.json">>, all_promo_cards)
            /\ UNCHANGED set_name
    /\ UNCHANGED <<args_setName, error, set_i, all_regular_cards, all_promo_cards, returned,
                   pack_i, pack_cards, card_pack_appearances, all_cards, card_i, online_cards, listed,
                   regular_cards_json, promo_cards_json, last>>

\* process_set returns r to its caller: the batch loop unpacks it into two names
\* (TypeError on None), the single-set branch drops it
ReturnTo(r) ==
    IF args_setName # None
    THEN pc' = "done" /\ error' = "" /\ returned' = NoResult
    ELSE IF r.none
         THEN pc' = "crashed" /\ error' = "TypeError" /\ returned' = NoResult
         ELSE pc' = "merge" /\ error' = "" /\ returned' = r

(***************************************************************************)
(* process_set                                                             *)
(***************************************************************************)
\* the folder check, the expansion id lookup and the locals
EnterSet ==
    /\ pc = "process_set"
    /\ \E folder_exists \in BOOLEAN :
          IF ~folder_exists \/ ~DictHas(SET_NAME_TO_EXPANSION_ID, set_name)
          THEN /\ ReturnTo(NoResult)
               /\ NoLocals
          ELSE /\ pc' = "packs"
               /\ pack_i' = 1
               /\ UNCHANGED <<error, returned, pack_cards, card_pack_appearances, all_cards, card_i,
                              online_cards, listed, regular_cards_json, promo_cards_json,
                              last>>
    /\ UNCHANGED <<args_setName, set_i, all_regular_cards, all_promo_cards, set_name, saved>>

RECURSIVE RecordAppearances(_, _, _)
\* for card_url, image_url in cards: ...  (lines 165-170); all is
\* [appearances, cards]
RecordAppearances(all, cards, pack_url) ==
    IF cards = <<>> THEN all
    ELSE LET card_url == Head(cards)
             seen == DictHas(all.appearances, card_url)
             before == IF seen THEN DictGet(all.appearances, card_url) ELSE <<>>
         IN  RecordAppearances(
                 [appearances |-> DictSet(all.appearances, card_url, Append(before, pack_url)),
                  cards |-> IF seen THEN all.cards ELSE Append(all.cards, card_url)],
                 Tail(cards), pack_url)

ListingBound == IF args_setName = None THEN BatchMaxListing ELSE MaxListing

FilesBound == IF args_setName = None THEN BatchMaxFiles ELSE MaxFiles

\* ScanPack leaving the pack loop for the hash pass after its first listing
\* that holds a card, whatever packs are left to scan
ScanPack_UntilFirstCard ==
    /\ pc = "packs"
    /\ \E cards \in SeqsUpTo(RegularUrls, ListingBound) :
          LET all == RecordAppearances([appearances |-> card_pack_appearances,
                                        cards |-> all_cards],
                                       cards, pack_urls[pack_i].url)
          IN  /\ pack_cards' = cards
              /\ card_pack_appearances' = all.appearances
              /\ all_cards' = all.cards
              /\ pack_i' = pack_i + 1
              /\ IF all.cards = <<>> /\ pack_i < Len(pack_urls)
                 THEN pc' = "packs" /\ card_i' = card_i
                 ELSE /\ card_i' = 1
                      /\ pc' = IF all.cards = <<>> THEN "promo" ELSE "hashes"
    /\ UNCHANGED <<args_setName, error, set_i, all_regular_cards, all_promo_cards,
                   returned, set_name, online_cards, listed, regular_cards_json,
                   promo_cards_json, last, saved>>

\* one turn of  for pack_url, _ in pack_urls ; a failed fetch gives the empty list
ScanPack ==
    /\ pc = "packs"
    /\ \E cards \in SeqsUpTo(RegularUrls, ListingBound) :
          LET all == RecordAppearances([appearances |-> card_pack_appearances,
                                        cards |-> all_cards],
                                       cards, pack_urls[pack_i].url)
          IN  /\ pack_cards' = cards
              /\ card_pack_appearances' = all.appearances
              /\ all_cards' = all.cards
              /\ pack_i' = pack_i + 1
              /\ IF pack_i < Len(pack_urls)
                 THEN pc' = "packs" /\ card_i' = card_i
                 ELSE /\ card_i' = 1
                      /\ pc' = IF all.cards = <<>> THEN "promo" ELSE "hashes"
    /\ UNCHANGED <<args_setName, error, set_i, all_regular_cards, all_promo_cards,
                   returned, set_name, online_cards, listed, regular_cards_json,
                   promo_cards_json, last, saved>>

\* RegularEntry with the pack-specific test on "seen in some pack" instead of
\* "seen exactly once"
RegularEntry_AnyPack(pack_urls_list, hash) ==
    [hash |-> hash,
     is_promo |-> FALSE,
     pack_url |-> pack_urls_list[1],
     is_pack_specific |-> Len(pack_urls_list) >= 1]

\* the catalog entry of a regular card (lines 180-190)
RegularEntry(pack_urls_list, hash) ==
    LET is_pack_specific == Len(pack_urls_list) = 1
    IN  [hash |-> hash,
         is_promo |-> FALSE,
         pack_url |-> IF is_pack_specific THEN pack_urls_list[1] ELSE None,
         is_pack_specific |-> is_pack_specific]

\* the catalog entry of a promo card (lines 204-210)
PromoEntry(hash) ==
    [hash |-> hash, is_promo |-> TRUE, pack_url |-> PROMO_SET_URL, is_pack_specific |-> TRUE]

\* one turn of  for full_card_url, image_url in all_cards.items()
HashCard ==
    /\ pc = "hashes"
    /\ \E fetched \in BOOLEAN :
          LET full_card_url == all_cards[card_i]
          IN  online_cards' =
                 IF fetched
                 THEN DictSet(online_cards, full_card_url,
                              RegularEntry(DictGet(card_pack_appearances, full_card_url),
                                           OnlineHash(full_card_url)))
                 ELSE online_cards
    /\ card_i' = card_i + 1
    /\ pc' = IF card_i < Len(all_cards) THEN "hashes" ELSE "promo"
    /\ UNCHANGED <<args_setName, error, set_i, all_regular_cards, all_promo_cards,
                   returned, set_name, pack_i, pack_cards, card_pack_appearances, all_cards, listed,
                   regular_cards_json, promo_cards_json, last, saved>>

RECURSIVE AddPromoCards(_, _, _)
\* for card_url, image_url in promo_cards: ...  ; fetched[i] tells whether the
\* i-th image could be fetched
AddPromoCards(cards, promo_cards, fetched) ==
    IF promo_cards = <<>> THEN cards
    ELSE AddPromoCards(
             IF Head(fetched)
             THEN DictSet(cards, Head(promo_cards), PromoEntry(OnlineHash(Head(promo_cards))))
             ELSE cards,
             Tail(promo_cards), Tail(fetched))

\* the promo listing and its hash pass
FetchPromo ==
    /\ pc = "promo"
    /\ \E promo_cards \in SeqsUpTo(PromoUrls, MaxPromoListing) :
       \E fetched \in [1..Len(promo_cards) -> BOOLEAN] :
          online_cards' = AddPromoCards(online_cards, promo_cards, fetched)
    /\ pc' = "local"
    /\ UNCHANGED <<args_setName, error, set_i, all_regular_cards, all_promo_cards,
                   returned, set_name, pack_i, pack_cards, card_pack_appearances, all_cards, card_i,
                   listed, regular_cards_json, promo_cards_json, last, saved>>

IMAGE_EXTENSIONS == {".png", ".jpg", ".jpeg", ".webp"}

\* filename.lower().endswith((".png", ".jpg", ".jpeg", ".webp"))
IsImageFile(filename) == filename # <<>> /\ Lower(filename[Len(filename)]) \in IMAGE_EXTENSIONS

RECURSIVE StripAll(_, _)
StripAll(s, c) == IF s # <<>> /\ Head(s) = c THEN StripAll(Tail(s), c) ELSE s

\* JsonKey with filename.lstrip("c") for the removal of the sentinel
JsonKey_LStrip(filename) ==
    LET key_parts == Split(StripAll(filename, "c"), "_")
    IN  IF Len(key_parts) >= 4
        THEN [ok |-> TRUE, json_key |-> Join(SubSeq(key_parts, 1, 4), "_")]
        ELSE [ok |-> FALSE, json_key |-> <<>>]

\* lines 232-241: ok = FALSE is the "unrecognized format" skip
JsonKey(filename) ==
    LET base_key == IF StartsWith(filename, <<"c">>) THEN Tail(filename) ELSE filename
        key_parts == Split(base_key, "_")
    IN  IF Len(key_parts) >= 4
        THEN [ok |-> TRUE, json_key |-> Join(SubSeq(key_parts, 1, 4), "_")]
        ELSE [ok |-> FALSE, json_key |-> <<>>]

\* float("inf") : above every distance of two 64-bit hashes
Infinity == 65

\* the acceptance threshold of line 254
MATCH_THRESHOLD == 10

\* SameClass without the promo/regular partition
SameClass_Any(card_data, is_promo) == TRUE

\* if card_data["is_promo"] == is_promo
SameClass(card_data, is_promo) == card_data.is_promo = is_promo

\* Closer with  <=  for  < : a later entry at the same distance replaces the
\* earlier one
Closer_OrEqual(dist, best_distance) == dist <= best_distance

\* if dist < best_distance
Closer(dist, best_distance) == dist < best_distance

RECURSIVE MatchLoop(_, _, _, _)
\* for url, card_data in online_cards.items(): ...  (lines 247-252)
MatchLoop(cards, local_hash, is_promo, best) ==
    IF cards = <<>> THEN best
    ELSE LET card_data == Head(cards).v
             dist == HashDistance(local_hash, card_data.hash)
         IN  MatchLoop(Tail(cards), local_hash, is_promo,
                       IF SameClass(card_data, is_promo) /\ Closer(dist, best.best_distance)
                       THEN [best_match_url |-> Head(cards).k, best_distance |-> dist]
                       ELSE best)

BestMatch(cards, local_hash, is_promo) ==
    MatchLoop(cards, local_hash, is_promo,
              [best_match_url |-> None, best_distance |-> Infinity])

\* if best_distance > 10: "No close match found"
NoCloseMatch(best_distance) == best_distance > MATCH_THRESHOLD

UNOBTAINABLE_RARITIES == {8, 9, 10, 11, 12}

\* CardObtainable without the promo branch
CardObtainable_RarityOnly(is_promo, card_rarity) == card_rarity \notin UNOBTAINABLE_RARITIES

\* "card_obtainable" of line 296
CardObtainable(is_promo, card_rarity) ==
    IF is_promo THEN FALSE ELSE card_rarity \notin UNOBTAINABLE_RARITIES

\* card_set of lines 278-283
CardSet(is_promo, card_data) ==
    IF is_promo THEN base_initials
    ELSE IF card_data.is_pack_specific
         THEN get_card_set(set_name, card_data.pack_url, base_initials)
         ELSE base_initials

\* card_set_name of lines 278-284
CardSetName(is_promo, card_data) ==
    IF is_promo THEN SplitWords(set_name)[1]
    ELSE IF card_data.is_pack_specific
         THEN get_card_set_name(set_name, card_data.pack_url)
         ELSE SplitWords(set_name)[1]

\* the record of lines 286-297 (expansion_id is not modelled)
CardRecord(url, is_promo, card_rarity) ==
    LET parsed == ParseCardUrl(url)
        card_data == DictGet(online_cards, url)
    IN  [card_number |-> parsed.card_number,
         card_name |-> slug_to_card_name(parsed.card_slug),
         card_rarity |-> card_rarity,
         card_set |-> CardSet(is_promo, card_data),
         card_set_name |-> CardSetName(is_promo, card_data),
         card_set_base_name |-> set_name,
         card_desirability |-> 0,
         card_tradable |-> FALSE,
         card_obtainable |-> CardObtainable(is_promo, card_rarity)]

\* the body of  for filename in os.listdir(image_folder)  (lines 222-305)
ProcessLocalImage(filename, local_hash) ==
    LET is_promo == is_promo_card(filename)
        key == JsonKey(filename)
        best == BestMatch(online_cards, local_hash, is_promo)
        parsed == ParseCardUrl(best.best_match_url)
        rarity == get_card_rarity_from_filename(filename)
        unmatched == [filename |-> filename, outcome |-> "none", is_promo |-> is_promo,
                      local_hash |-> local_hash, json_key |-> key.json_key,
                      best_match_url |-> None, best_distance |-> Infinity]
        matched == [unmatched EXCEPT !.best_match_url = best.best_match_url,
                                     !.best_distance = best.best_distance]
        skip(seen, why) ==
            /\ last' = [seen EXCEPT !.outcome = why]
            /\ UNCHANGED <<pc, error, regular_cards_json, promo_cards_json>>
    IN  /\ listed' = listed \cup {filename}
        /\ IF ~IsImageFile(filename) THEN skip(NoFile, "not an image")
           ELSE IF ~key.ok THEN skip(unmatched, "unrecognized format")
           ELSE IF NoCloseMatch(best.best_distance) THEN skip(matched, "no close match")
           ELSE IF best.best_match_url = None THEN skip(matched, "no match")
           ELSE IF ~parsed.ok THEN skip(matched, "invalid card url")
           ELSE IF ~rarity.ok
                THEN /\ pc' = "crashed"
                     /\ error' = "IndexError"
                     /\ last' = [matched EXCEPT !.outcome = "raised"]
                     /\ UNCHANGED <<regular_cards_json, promo_cards_json>>
           ELSE LET card_data == CardRecord(best.best_match_url, is_promo, rarity.val)
                IN  /\ last' = [matched EXCEPT !.outcome = "record"]
                    /\ promo_cards_json' =
                          IF is_promo
                          THEN DictSet(promo_cards_json, key.json_key, card_data)
                          ELSE promo_cards_json
                    /\ regular_cards_json' =
                          IF is_promo THEN regular_cards_json
                          ELSE DictSet(regular_cards_json, key.json_key, card_data)
                    /\ UNCHANGED <<pc, error>>
        /\ UNCHANGED <<args_setName, set_i, all_regular_cards, all_promo_cards, returned,
                       set_name, pack_i, pack_cards, card_pack_appearances, all_cards, card_i,
                       online_cards, saved>>

\* one turn of  for filename in os.listdir(image_folder)
LocalImage ==
    /\ pc = "local"
    /\ Cardinality(listed) < FilesBound
    /\ \E filename \in FileNames \ listed, local_hash \in LocalHashes :
          ProcessLocalImage(filename, local_hash)

\* lines 307-333, once the directory listing is exhausted: sort both dicts,
\* save them when --setName is given, return the pair
SortAndReturn ==
    /\ pc = "local"
    /\ IF SortRaises(regular_cards_json) \/ SortRaises(promo_cards_json)
       THEN /\ pc' = "crashed"
            /\ error' = "ValueError"
            /\ UNCHANGED <<returned, pack_i, pack_cards, card_pack_appearances, all_cards, card_i,
                           online_cards, listed, regular_cards_json, promo_cards_json, last,
                           saved>>
       ELSE LET sorted_regular == SortedByNumber(regular_cards_json)
                sorted_promo == SortedByNumber(promo_cards_json)
            IN  /\ ReturnTo([none |-> FALSE, sorted_regular |-> sorted_regular,
                             sorted_promo |-> sorted_promo])
                /\ saved' =
                      IF args_setName # None
                      THEN SaveIfAny(SaveIfAny(saved,
                                               get_set_initials(set_name)
                                                  \o <<"_Cards_Database.json">>,
                                               sorted_regular),
                                     <<"Promo_Cards_Database.json">>, sorted_promo)
                      ELSE saved
                /\ NoLocals
    /\ UNCHANGED <<args_setName, set_i, all_regular_cards, all_promo_cards, set_name>>

\* lines 356-364: the batch loop sorts each returned dict again and merges it
Merge ==
    /\ pc = "merge"
    /\ all_regular_cards' =
          DictUpdate(all_regular_cards, SortedByNumber(returned.sorted_regular))
    /\ all_promo_cards' = DictUpdate(all_promo_cards, SortedByNumber(returned.sorted_promo))
    /\ set_i' = set_i + 1
    /\ pc' = "loop"
    /\ returned' = NoResult
    /\ UNCHANGED <<args_setName, error, set_name, pack_i, pack_cards, card_pack_appearances, all_cards,
                   card_i, online_cards, listed, regular_cards_json, promo_cards_json, last,
                   saved>>

Next ==
    \/ Main
    \/ BatchNext
    \/ EnterSet
    \/ ScanPack
    \/ HashCard
    \/ FetchPromo
    \/ LocalImage
    \/ SortAndReturn
    \/ Merge

Spec == Init /\ [][Next]_vars

(***************************************************************************)
(* The file loop over every short file name: a single-set run of Mythical  *)
(* Island whose set page listed one card, taken up where the file loop     *)
(* starts, with the asset folder holding any one name over KeyAlphabet     *)
(***************************************************************************)
\* longest file name, without its extension
MaxNameLen == 8

KeyAlphabet == {"c", "_", "a"}

KeyInit ==
    /\ args_setName = MythicalIsland
    /\ pc = "local"
    /\ error = ""
    /\ set_i = 0
    /\ all_regular_cards = <<>>
    /\ all_promo_cards = <<>>
    /\ returned = NoResult
    /\ set_name = MythicalIsland
    /\ pack_i = 2
    /\ pack_cards = <<URL_5>>
    /\ card_pack_appearances = <<[k |-> URL_5, v |-> <<SET_PATH("a1a")>>]>>
    /\ all_cards = <<URL_5>>
    /\ card_i = 2
    /\ online_cards = <<[k |-> URL_5, v |-> RegularEntry(<<SET_PATH("a1a")>>, OnlineHash(URL_5))]>>
    /\ listed = {}
    /\ regular_cards_json = <<>>
    /\ promo_cards_json = <<>>
    /\ last = NoFile
    /\ saved = <<>>

KeyStep ==
    /\ pc = "local"
    /\ listed = {}
    /\ \E name \in SeqsUpTo(KeyAlphabet, MaxNameLen), local_hash \in LocalHashes :
          ProcessLocalImage(name \o <<".png">>, local_hash)

KeyNext == KeyStep

KeySpec == KeyInit /\ [][KeyNext]_vars

(***************************************************************************)
(* The matching loop over catalogs of every order and hash assignment      *)
(***************************************************************************)
\* longest catalog of one class
MatchMaxCatalog == 3

\* average_hash values of online and local images: distances 0, 1 and 2
MatchHashes == {{}, {0}, {1}, {0, 1}}

\* the sequences of distinct members of S of length at most n
DistinctSeqsUpTo(S, n) ==
    {s \in SeqsUpTo(S, n) : \A i, j \in 1..Len(s) : i # j => s[i] # s[j]}

\* online_cards as the hash pass (is_promo = FALSE) or the promo pass leaves
\* it for the urls listed, hashes[i] the hash of the image of urls[i]
CatalogOf(urls, hashes, is_promo) ==
    [i \in 1..Len(urls) |->
        [k |-> urls[i],
         v |-> IF is_promo THEN PromoEntry(hashes[i])
               ELSE RegularEntry(<<SET_PATH("a1a")>>, hashes[i])]]

MatchCatalogs(Urls, is_promo) ==
    UNION {{CatalogOf(urls, hashes, is_promo) : hashes \in [1..Len(urls) -> MatchHashes]} :
              urls \in DistinctSeqsUpTo(Urls, MatchMaxCatalog)}

\* process_set("Mythical Island") at the start of the file loop
MatchInit ==
    /\ args_setName = MythicalIsland
    /\ pc = "local"
    /\ error = ""
    /\ set_i = 0
    /\ all_regular_cards = <<>>
    /\ all_promo_cards = <<>>
    /\ returned = NoResult
    /\ set_name = MythicalIsland
    /\ pack_i = 2
    /\ card_i = 2
    /\ \E regular \in MatchCatalogs(RegularUrls, FALSE), promo \in MatchCatalogs(PromoUrls, TRUE) :
          /\ online_cards = regular \o promo
          /\ pack_cards = [i \in 1..Len(regular) |-> regular[i].k]
          /\ all_cards = [i \in 1..Len(regular) |-> regular[i].k]
          /\ card_pack_appearances =
                [i \in 1..Len(regular) |-> [k |-> regular[i].k, v |-> <<SET_PATH("a1a")>>]]
    /\ listed = {}
    /\ regular_cards_json = <<>>
    /\ promo_cards_json = <<>>
    /\ last = NoFile
    /\ saved = <<>>

MatchStep ==
    /\ pc = "local"
    /\ listed = {}
    /\ \E filename \in {FILE_regular, FILE_promo}, local_hash \in MatchHashes :
          ProcessLocalImage(filename, local_hash)

MatchNext == MatchStep

MatchSpec == MatchInit /\ [][MatchNext]_vars

(***************************************************************************)
(* Properties                                                              *)
(***************************************************************************)
\* the pack-appearance list of a card, empty for a card no pack listed
Appearances(url) ==
    IF DictHas(card_pack_appearances, url) THEN DictGet(card_pack_appearances, url) ELSE <<>>

\* the records of d are in ascending order of the stripped card number
IsSortedByNumber(d) ==
    \A i, j \in 1..Len(d) :
        i < j => SortKey(d[i].v.card_number) <= SortKey(d[j].v.card_number)

InBatch == args_setName = None

\* C1: in a batch run over all configured sets, a set whose asset folder is
\* missing or whose expansion id cannot be resolved yields no results and the
\* run never crashes because of it: the batch loop goes on with the next set.
C1_AbortedSetNeverCrashesBatch == InBatch => ~(pc = "crashed" /\ error = "TypeError")

\* C2: when the batch run has merged its per-set mappings, each of the two
\* full mappings is in ascending order of the stripped numeric card number
\* over all of its records.
C2_FullMappingsSorted ==
    (InBatch /\ pc = "done") =>
        /\ IsSortedByNumber(all_regular_cards)
        /\ IsSortedByNumber(all_promo_cards)
        /\ \A i \in 1..Len(saved) : IsSortedByNumber(saved[i].v)

\* C3 as stated: for every catalog entry, regular or promo, is_pack_specific
\* equals (the card's pack-appearance list has exactly one entry), and pack_url
\* is non-null iff is_pack_specific.
C3_EveryEntryFollowsAppearances ==
    \A i \in 1..Len(online_cards) :
        LET e == online_cards[i].v
        IN  /\ e.is_pack_specific = (Len(Appearances(online_cards[i].k)) = 1)
            /\ (e.pack_url # None) = e.is_pack_specific

\* C3 amended: for every regular catalog entry is_pack_specific equals (the
\* card's pack-appearance list has exactly one entry) and pack_url is that
\* entry; every promo entry is pack-specific with the promo listing as its
\* pack_url, whatever its appearance list; and for every entry pack_url is
\* non-null iff is_pack_specific.
C3_PackSpecificity ==
    \A i \in 1..Len(online_cards) :
        LET e == online_cards[i].v
            appearances == Appearances(online_cards[i].k)
        IN  /\ ~e.is_promo =>
                  /\ e.is_pack_specific = (Len(appearances) = 1)
                  /\ e.is_pack_specific => e.pack_url = appearances[1]
            /\ e.is_promo => e.is_pack_specific /\ e.pack_url = PROMO_SET_URL
            /\ (e.pack_url # None) = e.is_pack_specific

\* a catalog with a card repeated inside one pack listing, a card listed in
\* several packs, a card of a single pack, and a promo card
C3_Witness ==
    /\ pc = "local"
    /\ \E i \in 1..Len(online_cards) :
          LET a == Appearances(online_cards[i].k)
          IN  ~online_cards[i].v.is_promo /\ Len(a) = 2 /\ a[1] = a[2]
    /\ \E i \in 1..Len(online_cards) : online_cards[i].v.is_promo
    /\ \E i \in 1..Len(online_cards) :
          ~online_cards[i].v.is_promo /\ online_cards[i].v.is_pack_specific

\* the run is in, or was ended by, the turn of the file loop that last describes
AfterFile == pc = "local" \/ (pc = "crashed" /\ error = "IndexError")

\* the matcher selected an entry for the latest local file
Matched == AfterFile /\ last.best_match_url # None

\* C4: the entry the matcher selects has the is_promo flag of the query's
\* class, is_promo_card(filename): a regular query never gets a promo entry
\* and a promo query never a regular one.
C4_MatchClassIsolation ==
    Matched =>
        /\ DictHas(online_cards, last.best_match_url)
        /\ DictGet(online_cards, last.best_match_url).is_promo = is_promo_card(last.filename)

\* a regular query got its record from a regular entry although a promo
\* entry of the catalog is strictly closer
C4_Witness ==
    /\ Matched
    /\ last.outcome = "record"
    /\ ~is_promo_card(last.filename)
    /\ \E i \in 1..Len(online_cards) :
          /\ online_cards[i].v.is_promo # is_promo_card(last.filename)
          /\ HashDistance(last.local_hash, online_cards[i].v.hash) < last.best_distance

\* the distances from the latest local hash to the catalog entries of its class
SameClassDistances ==
    {HashDistance(last.local_hash, online_cards[i].v.hash) :
        i \in {j \in 1..Len(online_cards) :
                  online_cards[j].v.is_promo = is_promo_card(last.filename)}}

MinSameClassDistance == CHOOSE d \in SameClassDistances : \A e \in SameClassDistances : d <= e

\* the latest local file was an image with a key and went to the matcher
Queried ==
    /\ AfterFile
    /\ last.outcome \notin {"none", "not an image", "unrecognized format"}

\* the record stored for the latest local file
LastRecord ==
    DictGet(IF last.is_promo THEN promo_cards_json ELSE regular_cards_json, last.json_key)

HasLastRecord ==
    DictHas(IF last.is_promo THEN promo_cards_json ELSE regular_cards_json, last.json_key)

\* C5: with the threshold of 10, a query whose minimum same-class distance is
\* exactly 10 is accepted and a record is derived for it; a query whose minimum
\* same-class distance is 11 or more, or that has no same-class entry, is
\* reported unmatched without error and the run goes on with the next image.
C5_ThresholdBoundary ==
    Queried =>
        /\ (SameClassDistances # {} /\ MinSameClassDistance = 10) =>
              last.outcome = "record" /\ HasLastRecord
        /\ (SameClassDistances = {} \/ MinSameClassDistance >= 11) =>
              last.outcome = "no close match" /\ pc = "local" /\ error = ""

\* the rarity-table value of the 6th underscore segment, 0 for an unlisted code
TableRarity(filename) ==
    LET code == Split(filename, "_")[6]
        hits == {i \in 1..Len(RARITY_MAP) : RARITY_MAP[i].k = code}
    IN  IF hits = {} THEN 0 ELSE RARITY_MAP[CHOOSE i \in hits : TRUE].v

\* C6: for a local file with at least 4 underscore segments that is matched
\* within the threshold, rarity derivation never raises and the set is not
\* aborted, and the record derived carries the rarity-table value of the 6th
\* segment, or 0 for a code not in the table.
C6_RarityNeverRaises ==
    (Queried /\ last.best_distance <= 10) =>
        /\ error # "IndexError"
        /\ last.outcome = "record" => LastRecord.card_rarity = TableRarity(last.filename)

\* a record was derived for the latest local file
Derived == pc = "local" /\ last.outcome = "record"

HasSubPacks == \E i \in 1..Len(PACK_CONFIGS) : PACK_CONFIGS[i].k = set_name

\* the suffix the configuration pairs with a pack url
PackSuffix(pack_url) ==
    pack_urls[CHOOSE i \in 1..Len(pack_urls) : pack_urls[i].url = pack_url].suffix

\* the chunks of a set name before its first blank
FirstWord(name) ==
    LET blanks == {i \in 1..Len(name) : name[i] = " "}
    IN  IF blanks = {} THEN name
        ELSE SubSeq(name, 1, (CHOOSE i \in blanks : \A j \in blanks : i <= j) - 1)

\* C7: a derived record's card_set is the base initials for a promo card, the
\* base initials followed by the suffix of the single pack the card appeared
\* in for a pack-specific regular card of a set with sub-packs, and the base
\* initials alone for any other regular card; in a set without sub-packs a
\* regular card's card_set_name is the first word of the set name.
C7_CardSet ==
    Derived =>
        LET appearances == Appearances(last.best_match_url)
        IN  /\ LastRecord.card_set =
                  IF last.is_promo THEN base_initials
                  ELSE IF HasSubPacks /\ Len(appearances) = 1
                       THEN base_initials \o <<PackSuffix(appearances[1])>>
                       ELSE base_initials
            /\ (~last.is_promo /\ ~HasSubPacks) =>
                  /\ LastRecord.card_set = base_initials
                  /\ LastRecord.card_set_name = FirstWord(set_name)

\* a regular card seen only in the Mewtwo pack of Genetic Apex got GAM
C7_Witness ==
    /\ Derived
    /\ ~last.is_promo
    /\ Len(Appearances(last.best_match_url)) = 1
    /\ LastRecord.card_set = <<"G", "A", "M">>

\* the records of a mapping
Records(d) == {d[i].v : i \in 1..Len(d)}

RegularRecords ==
    Records(regular_cards_json) \cup Records(returned.sorted_regular)
        \cup Records(all_regular_cards)

PromoRecords ==
    Records(promo_cards_json) \cup Records(returned.sorted_promo) \cup Records(all_promo_cards)

\* C8: card_obtainable is false for every promo record whatever its rarity,
\* and for a regular record it is false iff card_rarity is one of 8..12.
C8_Obtainability ==
    /\ \A r \in PromoRecords : ~r.card_obtainable
    /\ \A r \in RegularRecords : r.card_obtainable = (r.card_rarity \notin {8, 9, 10, 11, 12})

\* a promo record of rarity 3 that is not obtainable next to a regular record
\* of rarity 9 that is not obtainable either
C8_Witness ==
    /\ \E r \in PromoRecords : r.card_rarity = 3 /\ ~r.card_obtainable
    /\ \E r \in RegularRecords : r.card_rarity = 9 /\ ~r.card_obtainable

\* C9: sorting never fails, and each mapping process_set returns or saves is
\* in ascending order of the numeric value of card_number with its non-digit
\* prefixes and suffixes stripped.
C9_PerSetSorted ==
    /\ error # "ValueError"
    /\ IsSortedByNumber(returned.sorted_regular)
    /\ IsSortedByNumber(returned.sorted_promo)
    /\ ~InBatch => \A i \in 1..Len(saved) : IsSortedByNumber(saved[i].v)

\* the number of underscore-delimited segments of a name
SegmentCount(name) == Cardinality({i \in 1..Len(name) : name[i] = "_"}) + 1

\* what stands before the 4th underscore of a name without its one leading "c"
FirstFourSegments(name) ==
    LET base == IF name # <<>> /\ name[1] = "c" THEN Tail(name) ELSE name
        cuts == {i \in 1..Len(base) :
                    base[i] = "_" /\ Cardinality({j \in 1..i : base[j] = "_"}) = 4}
    IN  IF cuts = {} THEN base ELSE SubSeq(base, 1, (CHOOSE i \in cuts : TRUE) - 1)

\* the file loop has handled a file name
KeyTried == listed # {} /\ last.outcome # "not an image"

\* the parts of C10 other than the sentinel's: the key of a name of 4 or more
\* segments, further segments, and the skip of a name of fewer
KeySegments ==
    /\ SegmentCount(last.filename) >= 4 =>
          /\ last.outcome # "unrecognized format"
          /\ last.json_key = FirstFourSegments(last.filename)
          /\ JsonKey(last.filename \o <<"_", "a">>).json_key = last.json_key
          /\ last.outcome = "record" =>
                DictHas(regular_cards_json, FirstFourSegments(last.filename))
    /\ SegmentCount(last.filename) < 4 =>
          /\ last.outcome = "unrecognized format"
          /\ regular_cards_json = <<>> /\ promo_cards_json = <<>>
          /\ pc = "local"

\* C10 as stated: the key of a name of at least 4 segments is its first four
\* segments after the removal of at most one leading "c", joined with
\* underscores; further segments do not change it; it is the same with and
\* without the leading sentinel; a name of fewer than 4 segments has no key
\* and is skipped.
C10_KeyDerivation ==
    KeyTried =>
        /\ KeySegments
        /\ SegmentCount(last.filename) >= 4 =>
              JsonKey(<<"c">> \o last.filename).json_key = last.json_key

\* C10 amended: as C10, but the key is the same with and without the leading
\* sentinel only for a name that does not itself begin with "c"; put before a
\* name that begins with "c", the sentinel is the one character removed and
\* the key keeps the name's own "c".
C10_KeyDerivationUnlessNameStartsWithC ==
    KeyTried =>
        /\ KeySegments
        /\ (SegmentCount(last.filename) >= 4 /\ last.filename[1] # "c") =>
              JsonKey(<<"c">> \o last.filename).json_key = last.json_key
        /\ (SegmentCount(last.filename) >= 4 /\ last.filename[1] = "c") =>
              JsonKey(<<"c">> \o last.filename).json_key = <<"c">> \o last.json_key

\* a name with the sentinel and six segments got a record under its key
C10_Witness ==
    /\ KeyTried
    /\ last.filename[1] = "c"
    /\ SegmentCount(last.filename) = 6
    /\ last.outcome = "record"
    /\ DictHas(regular_cards_json, last.json_key)
    /\ Len(last.json_key) = 5

\* the positions of the catalog entries of the latest query's class
SameClassEntries ==
    {j \in 1..Len(online_cards) : online_cards[j].v.is_promo = is_promo_card(last.filename)}

\* the distance from the latest local hash to the i-th catalog entry
DistanceTo(i) == HashDistance(last.local_hash, online_cards[i].v.hash)

\* C11: the entry the matcher selects has the minimum distance to the local
\* hash among the catalog entries of the query's class, and of several
\* same-class entries at that minimum it is the first in the catalog's
\* iteration order; with no same-class entry nothing is selected.
C11_MinimumFirstEncountered ==
    Queried =>
        IF SameClassEntries = {}
        THEN last.best_match_url = None
        ELSE \E i \in SameClassEntries :
                /\ last.best_match_url = online_cards[i].k
                /\ last.best_distance = DistanceTo(i)
                /\ \A j \in SameClassEntries :
                      /\ DistanceTo(i) <= DistanceTo(j)
                      /\ j < i => DistanceTo(i) < DistanceTo(j)

\* three entries of the query's class, the first farther than the other two,
\* which are at the same distance: the second was selected
C11_Witness ==
    /\ Queried
    /\ \E i, j, k \in SameClassEntries :
          /\ i < j /\ j < k
          /\ DistanceTo(i) > DistanceTo(j)
          /\ DistanceTo(j) = DistanceTo(k)
          /\ online_cards[j].v.hash # online_cards[k].v.hash
          /\ last.best_match_url = online_cards[j].k
          /\ last.best_distance = DistanceTo(j)

\* how many times url is in the listing
Observations(listing, url) == Cardinality({i \in 1..Len(listing) : listing[i] = url})

\* n times the pack url
Repeated(n, pack_url) == [i \in 1..n |-> pack_url]

\* a turn of the pack loop: nothing of the catalog exists yet, the pack just
\* fetched is appended to the list of each card once for each time the
\* listing has the card, the cards first seen are appended to all_cards once,
\* and the loop goes on to the next pack, if any, whatever the listing was
C12_PackTurn ==
    /\ online_cards = <<>> /\ online_cards' = <<>>
    /\ \A url \in RegularUrls :
          Appearances(url)' =
             Appearances(url) \o Repeated(Observations(pack_cards', url), pack_urls[pack_i].url)
    /\ \E first_seen \in DistinctSeqsUpTo(RegularUrls, Cardinality(RegularUrls)) :
          /\ all_cards' = all_cards \o first_seen
          /\ \A url \in RegularUrls :
                (\E i \in 1..Len(first_seen) : first_seen[i] = url)
                   <=> (Appearances(url) = <<>> /\ Observations(pack_cards', url) > 0)
    /\ pack_i' = pack_i + 1
    /\ error' = ""
    /\ IF pack_i < Len(pack_urls) THEN pc' = "packs" ELSE pc' \in {"hashes", "promo"}

\* a turn of the hash pass: every pack has been scanned and the index no
\* longer changes; the card has no entry yet; it gets one decided on its whole
\* list, or none if its image could not be fetched, and the pass goes on
C12_HashTurn ==
    LET url == all_cards[card_i]
    IN  /\ pack_i = Len(pack_urls) + 1
        /\ card_pack_appearances' = card_pack_appearances
        /\ ~DictHas(online_cards, url)
        /\ \/ online_cards' = online_cards
           \/ /\ Len(online_cards') = Len(online_cards) + 1
              /\ SubSeq(online_cards', 1, Len(online_cards)) = online_cards
              /\ LET entry == online_cards'[Len(online_cards')]
                 IN  /\ entry.k = url
                     /\ entry.v.is_promo = FALSE
                     /\ entry.v.is_pack_specific = (Len(Appearances(url)) = 1)
                     /\ entry.v.pack_url =
                           IF Len(Appearances(url)) = 1 THEN Appearances(url)[1] ELSE None
        /\ card_i' = card_i + 1
        /\ error' = ""
        /\ IF card_i < Len(all_cards) THEN pc' = "hashes" ELSE pc' = "promo"

\* C12: within one process_set run every pack of the set is scanned, the pack
\* appended to a card's list on every observation, before the hash of any
\* card is computed or its is_pack_specific / pack_url decided; each distinct
\* card url gets its entry at most once; a failed pack fetch or card image
\* fetch skips that item only and the pass goes on.
C12_IndexBeforeHashes ==
    [][/\ pc = "packs" => C12_PackTurn
       /\ pc = "hashes" => C12_HashTurn]_vars

\* Genetic Apex after its hash pass: the last pack gave no listing, one card
\* was seen in two different packs and is not pack-specific, the other card's
\* image could not be fetched and it alone has no entry
C12_Witness ==
    /\ pc = "promo"
    /\ set_name = GeneticApex
    /\ pack_i = Len(pack_urls) + 1
    /\ pack_cards = <<>>
    /\ Len(all_cards) = 2
    /\ Len(online_cards) = 1
    /\ \E url \in RegularUrls :
          /\ DictHas(online_cards, url)
          /\ Len(Appearances(url)) = 2
          /\ Appearances(url)[1] # Appearances(url)[2]
          /\ ~DictGet(online_cards, url).is_pack_specific
          /\ DictGet(online_cards, url).pack_url = None

=============================================================================
